---- MODULE Spec2Model ----
(***************************************************************************)
(* nickcam: a fake camera module.  src/main.go holds two programs, each a  *)
(* complete `package main`: lines 1-233 (build 1) and lines 235-430        *)
(* (build 2).  The variable `build` says which of the two is running.      *)
(*                                                                         *)
(* Strings that the code compares, sorts or concatenates are sequences of  *)
(* bytes, so that sorting and formatting are computed and not assumed.     *)
(***************************************************************************)
EXTENDS Integers, Sequences, FiniteSets, TLC

VARIABLES
    build,              \* 1: main.go:1-233, 2: main.go:235-430
    colorOptions,       \* package variable, main.go:53
    imageTypeOptions,   \* package variable, main.go:44
    conf,               \* the Config that Validate is called on
    vres,               \* what Validate returned for conf
    cam,                \* the adapter (*fake) built by newCam
    streams,            \* the stream handles (*s) handed out by Stream
    exited,             \* whether the process runs, and its exit code
    pc,                 \* per caller: the operation and place it is at
    fr,                 \* per caller: the locals of the call in progress
    ret                 \* per caller: what its last call returned

vars == <<build, colorOptions, imageTypeOptions, conf, vres, cam, streams,
          exited, pc, fr, ret>>

(***************************************************************************)
(* Bounds of the model.                                                    *)
(***************************************************************************)
NumCallers == 2

Callers == 1..NumCallers

(***************************************************************************)
(* Byte strings.                                                           *)
(***************************************************************************)
white == <<119, 104, 105, 116, 101>>
red == <<114, 101, 100>>
green == <<103, 114, 101, 101, 110>>
blue == <<98, 108, 117, 101>>
jpeg == <<106, 112, 101, 103>>
png == <<112, 110, 103>>

\* inputs that are not keys of the tables: "", "purple", "Red", "gif", "JPEG"
purple == <<112, 117, 114, 112, 108, 101>>
RedCap == <<82, 101, 100>>
gif == <<103, 105, 102>>
JPEGCap == <<74, 80, 69, 71>>
EmptyStr == <<>>

\* Go's nil, as an error and as a value; an error carries its text
NilErr == [nil |-> TRUE, msg |-> <<>>]
NilVal == [nil |-> TRUE]
Error(msg) == [nil |-> FALSE, msg |-> msg]

\* the process: running, or ended by os.Exit(code)
NotExited == [running |-> TRUE, code |-> 0]
Exited(code) == [running |-> FALSE, code |-> code]
NoCam == [built |-> FALSE]
NotRun == [run |-> FALSE]
NoConf == [none |-> TRUE]

\* Go's < on strings: bytewise lexicographic
RECURSIVE LessStr(_, _)
LessStr(a, b) ==
    IF b = <<>> THEN FALSE
    ELSE IF a = <<>> THEN TRUE
    ELSE IF Head(a) # Head(b) THEN Head(a) < Head(b)
    ELSE LessStr(Tail(a), Tail(b))

\* insert x into the ascending sequence s
RECURSIVE InsertSorted(_, _)
InsertSorted(x, s) ==
    IF s = <<>> THEN <<x>>
    ELSE IF LessStr(Head(s), x) THEN <<Head(s)>> \o InsertSorted(x, Tail(s))
    ELSE <<x>> \o s

RECURSIVE SortFrom(_, _)
SortFrom(s, acc) ==
    IF s = <<>> THEN acc ELSE SortFrom(Tail(s), InsertSorted(Head(s), acc))

\* a plausible slip: init() never sorts, the options stay in map order
SortNot(s) == s

\* slices.Sort on a []string
Sort(s) == SortFrom(s, <<>>)

\* strings.Join
RECURSIVE Join(_, _)
Join(elems, sep) ==
    IF elems = <<>> THEN <<>>
    ELSE IF Len(elems) = 1 THEN elems[1]
    ELSE elems[1] \o sep \o Join(Tail(elems), sep)

(***************************************************************************)
(* The lookup tables and their key lists.                                  *)
(***************************************************************************)
imageTypes == [k \in {jpeg, png} |-> TRUE]

colors ==
    (white :> [R |-> 255, G |-> 255, B |-> 255, A |-> 255]) @@
    (red :> [R |-> 255, G |-> 0, B |-> 0, A |-> 255]) @@
    (green :> [R |-> 0, G |-> 255, B |-> 0, A |-> 255]) @@
    (blue :> [R |-> 0, G |-> 0, B |-> 255, A |-> 255])

\* maps.Keys: the keys of m in an order the runtime picks
Keys(m) ==
    {s \in [1..Cardinality(DOMAIN m) -> DOMAIN m] :
        \A i, j \in DOMAIN s : i # j => s[i] # s[j]}

\* the package variables once init() has run
PackageInit ==
    /\ \E ks \in Keys(colors) : colorOptions = Sort(ks)
    /\ \E ks \in Keys(imageTypes) : imageTypeOptions = Sort(ks)

(***************************************************************************)
(* Config and Config.Validate.                                             *)
(***************************************************************************)
ColorInputs == {white, red, green, blue, EmptyStr, purple, RedCap}
ImageTypeInputs == {jpeg, png, EmptyStr, gif, JPEGCap}

Configs == [Big : BOOLEAN, Color : ColorInputs, ImageType : ImageTypeInputs]

\* "config color "
TxtConfigColor == <<99, 111, 110, 102, 105, 103, 32, 99, 111, 108, 111, 114, 32>>
\* " invalid, valid colors: "
TxtValidColors ==
    <<32, 105, 110, 118, 97, 108, 105, 100, 44, 32, 118, 97, 108, 105, 100, 32,
      99, 111, 108, 111, 114, 115, 58, 32>>
\* "config image_type "
TxtConfigImageType ==
    <<99, 111, 110, 102, 105, 103, 32, 105, 109, 97, 103, 101, 95, 116, 121,
      112, 101, 32>>
\* " invalid, valid image types: "
TxtValidImageTypes ==
    <<32, 105, 110, 118, 97, 108, 105, 100, 44, 32, 118, 97, 108, 105, 100, 32,
      105, 109, 97, 103, 101, 32, 116, 121, 112, 101, 115, 58, 32>>
\* ", "
TxtCommaSpace == <<44, 32>>

\* a plausible slip: the image type is looked up in the colour table
ValidateWrongTable(c) ==
    IF c.Color \notin DOMAIN colors
    THEN [warnings |-> NilVal,
          err |-> Error(TxtConfigColor \o c.Color \o TxtValidColors
                          \o Join(colorOptions, TxtCommaSpace))]
    ELSE IF c.ImageType \notin DOMAIN colors
    THEN [warnings |-> NilVal,
          err |-> Error(TxtConfigImageType \o c.ImageType \o TxtValidImageTypes
                          \o Join(imageTypeOptions, TxtCommaSpace))]
    ELSE [warnings |-> NilVal, err |-> NilErr]

\* (c *Config) Validate: the pair it returns
Validate(c) ==
    IF c.Color \notin DOMAIN colors
    THEN [warnings |-> NilVal,
          err |-> Error(TxtConfigColor \o c.Color \o TxtValidColors
                          \o Join(colorOptions, TxtCommaSpace))]
    ELSE IF c.ImageType \notin DOMAIN imageTypes
    THEN [warnings |-> NilVal,
          err |-> Error(TxtConfigImageType \o c.ImageType \o TxtValidImageTypes
                          \o Join(imageTypeOptions, TxtCommaSpace))]
    ELSE [warnings |-> NilVal, err |-> NilErr]

(***************************************************************************)
(* The renderer (github.com/nicksanford/imageclock/clockdrawer) is not     *)
(* part of this repository.  Of a ClockDrawer the model keeps the encoding  *)
(* and the size flag New was given; the colour only sets pixels, which the *)
(* model does not draw.  Image either encodes the label it is given or     *)
(* fails.                                                                  *)
(***************************************************************************)
\* "images1 time: "
TxtImages1 == <<105, 109, 97, 103, 101, 115, 49, 32, 116, 105, 109, 101, 58, 32>>
\* "images2 time: "
TxtImages2 == <<105, 109, 97, 103, 101, 115, 50, 32, 116, 105, 109, 101, 58, 32>>
\* "image time: "
TxtImage == <<105, 109, 97, 103, 101, 32, 116, 105, 109, 101, 58, 32>>
\* "."
TxtDot == <<46>>

\* the error of a failed cd.Image, and errors.New("Projector unimplemented")
ErrEncoding == Error("encoding failed")
ErrProjector == Error("Projector unimplemented")

\* clockdrawer.New(name, color, imageType, big)
ClockDrawerNew(color, imageType, big) ==
    [imageType |-> imageType, big |-> big]

\* cd.Image(label), when it succeeds
ImageOf(cd, label) == [label |-> label, format |-> cd.imageType, big |-> cd.big]

\* cd.Ext()
Ext(cd) == TxtDot \o cd.imageType

\* time.Time.Format(time.RFC3339Nano): the instant written out in digits
RECURSIVE Format(_)
Format(ts) == IF ts < 10 THEN <<48 + ts>> ELSE Format(ts \div 10) \o <<48 + (ts % 10)>>

\* the embedded payloads, decoded by pointcloud.ReadPCD
bigPCD == [pcd |-> "pcds/large.pcd"]
smallPCD == [pcd |-> "pcds/small.pcd"]

(***************************************************************************)
(* The adapter.                                                            *)
(***************************************************************************)
ValidConfigs == {c \in Configs : Validate(c).err.nil}

\* newCam: the *fake it returns; mu = 0 is the unlocked mutex, otherwise mu
\* is the caller that holds it.  Build 2 never sets big.
newCam(b, c) ==
    [mu |-> 0,
     big |-> IF b = 1 THEN c.Big ELSE FALSE,
     clockDrawer |-> ClockDrawerNew(colors[c.Color], c.ImageType, c.Big)]

\* (f *fake) newStream
newStream(f) == [clockDrawer |-> f.clockDrawer]

\* DoCommand's inputs: the empty map, "boom" under a nil and under a
\* non-nil value, and a map with another key
Extras == {<<>>, [boom |-> "nil"], [boom |-> "true"], [cmd |-> "true"]}

NoFrame == [ts1 |-> -1, ts2 |-> -1, extra |-> <<>>, trace |-> <<>>]
NoRet == [op |-> "none", in |-> <<>>, val |-> NilVal, err |-> NilErr, trace |-> <<>>]
Ret(op, in, val, err, trace) ==
    [op |-> op, in |-> in, val |-> val, err |-> err, trace |-> trace]

\* time.Now().  The program never compares the instants of two calls, so a
\* call's instants are counted from its first clock read, which is instant
\* 0; a later read returns the instant of the read before it, when the clock
\* has not moved on in between, or a later one.
TimeNowAfter(ts) == {ts, ts + 1}

EvNow(ts) == [ev |-> "now", ts |-> ts, label |-> <<>>]
EvImage(label) == [ev |-> "Image", ts |-> -1, label |-> label]

Alive == exited.running

Lock(t) == cam.mu = 0 /\ cam' = [cam EXCEPT !.mu = t]
Unlock == cam' = [cam EXCEPT !.mu = 0]

Const == UNCHANGED <<build, colorOptions, imageTypeOptions, conf, vres>>

\* a call begins: the caller is at the first statement of op
Call(t, op) ==
    /\ Alive
    /\ pc[t] = "idle"
    /\ pc' = [pc EXCEPT ![t] = op]
    /\ ret' = [ret EXCEPT ![t] = NoRet]

\* a call returns r
Return(t, r) ==
    /\ pc' = [pc EXCEPT ![t] = "idle"]
    /\ fr' = [fr EXCEPT ![t] = NoFrame]
    /\ ret' = [ret EXCEPT ![t] = r]

(***************************************************************************)
(* Images: main.go:140-163 (build 1), 358-373 (build 2).                   *)
(***************************************************************************)
CallImages(t) ==
    /\ Call(t, "Images")
    /\ UNCHANGED <<cam, streams, exited, fr>> /\ Const

\* f.mu.Lock(); ts1 := time.Now(); nowStr1 := ts1.Format(...)
ImagesLock(t) ==
    /\ Alive
    /\ pc[t] = "Images"
    /\ Lock(t)
    /\ fr' = [fr EXCEPT ![t] = [@ EXCEPT !.ts1 = 0, !.trace = <<EvNow(0)>>]]
    /\ pc' = [pc EXCEPT ![t] = "Images.Render1"]
    /\ UNCHANGED <<streams, exited, ret>> /\ Const

\* img1 := Image("images1 time: " + nowStr1); on an error return it (build 1
\* only: in build 2 Image returns no error); ts2 := time.Now()
ImagesRender1(t) ==
    /\ Alive
    /\ pc[t] = "Images.Render1"
    /\ LET label1 == TxtImages1 \o Format(fr[t].ts1)
           trace1 == Append(fr[t].trace, EvImage(label1))
       IN \/ /\ build = 1
             /\ Unlock
             /\ Return(t, Ret("Images", <<>>, NilVal, ErrEncoding, <<>>))
          \/ /\ \E now \in TimeNowAfter(fr[t].ts1) :
                    fr' = [fr EXCEPT ![t] =
                              [@ EXCEPT !.ts2 = now,
                                        !.trace = Append(trace1, EvNow(now))]]
             /\ pc' = [pc EXCEPT ![t] = "Images.Render2"]
             /\ UNCHANGED <<cam, ret>>
    /\ UNCHANGED <<streams, exited>> /\ Const

\* nowStr2 := ts1.Format(...); img2 := Image("images2 time: " + nowStr2)
\* (build 2: + nowStr1); on an error return it; return the two named images
\* and CapturedAt: ts2
ImagesRender2(t) ==
    /\ Alive
    /\ pc[t] = "Images.Render2"
    /\ LET cd == cam.clockDrawer
           nowStr1 == Format(fr[t].ts1)
           nowStr2 == Format(fr[t].ts1)
           label1 == TxtImages1 \o nowStr1
           label2 == TxtImages2 \o (IF build = 1 THEN nowStr2 ELSE nowStr1)
           trace2 == Append(fr[t].trace, EvImage(label2))
           images == <<[Image |-> ImageOf(cd, label1), SourceName |-> nowStr1 \o Ext(cd)],
                       [Image |-> ImageOf(cd, label2), SourceName |-> nowStr2 \o Ext(cd)]>>
       IN \/ /\ build = 1
             /\ Return(t, Ret("Images", <<>>, NilVal, ErrEncoding, <<>>))
          \/ Return(t, Ret("Images", <<>>,
                           [images |-> images, meta |-> [CapturedAt |-> fr[t].ts2]],
                           NilErr, trace2))
    /\ Unlock
    /\ UNCHANGED <<streams, exited>> /\ Const

(***************************************************************************)
(* NextPointCloud: main.go:165-174 (build 1), 375-377 (build 2).           *)
(***************************************************************************)
CallNextPointCloud(t) ==
    /\ Call(t, "NextPointCloud")
    /\ UNCHANGED <<cam, streams, exited, fr>> /\ Const

\* build 1: f.mu.Lock()
NextPointCloudLock(t) ==
    /\ Alive
    /\ build = 1
    /\ pc[t] = "NextPointCloud"
    /\ Lock(t)
    /\ pc' = [pc EXCEPT ![t] = "NextPointCloud.Body"]
    /\ UNCHANGED <<streams, exited, fr, ret>> /\ Const

\* build 1: the payload f.big selects
PointCloudOf(f) == IF f.big THEN bigPCD ELSE smallPCD

\* build 1: return ReadPCD(...), then the deferred Unlock
NextPointCloudBody(t) ==
    /\ Alive
    /\ pc[t] = "NextPointCloud.Body"
    /\ Unlock
    /\ Return(t, Ret("NextPointCloud", <<>>, PointCloudOf(cam), NilErr, <<>>))
    /\ UNCHANGED <<streams, exited>> /\ Const

\* build 2: return nil, nil, with no lock taken
NextPointCloudStub(t) ==
    /\ Alive
    /\ build = 2
    /\ pc[t] = "NextPointCloud"
    /\ Return(t, Ret("NextPointCloud", <<>>, NilVal, NilErr, <<>>))
    /\ UNCHANGED <<cam, streams, exited>> /\ Const

(***************************************************************************)
(* Projector: main.go:176-180, 379-381.  It takes no lock.                 *)
(***************************************************************************)
\* a plausible slip: Projector takes the adapter lock like its neighbours
ProjectorLocked(t) ==
    /\ Alive
    /\ pc[t] = "idle"
    /\ cam.mu = 0
    /\ ret' = [ret EXCEPT ![t] = Ret("Projector", <<>>, NilVal, ErrProjector, <<>>)]
    /\ UNCHANGED <<cam, streams, exited, pc, fr>> /\ Const

\* return nil, errors.New("Projector unimplemented")

Projector(t) ==
    /\ Alive
    /\ pc[t] = "idle"
    /\ ret' = [ret EXCEPT ![t] = Ret("Projector", <<>>, NilVal, ErrProjector, <<>>)]
    /\ UNCHANGED <<cam, streams, exited, pc, fr>> /\ Const

(***************************************************************************)
(* Stream and the stream handle: main.go:96-114, 188-194, 319-333, 387-391.*)
(***************************************************************************)
CallStream(t) ==
    /\ Call(t, "Stream")
    /\ UNCHANGED <<cam, streams, exited, fr>> /\ Const

StreamLock(t) ==
    /\ Alive
    /\ pc[t] = "Stream"
    /\ Lock(t)
    /\ pc' = [pc EXCEPT ![t] = "Stream.Body"]
    /\ UNCHANGED <<streams, exited, fr, ret>> /\ Const

\* a plausible slip: the deferred Unlock is missing
StreamBodyNoUnlock(t) ==
    /\ Alive
    /\ pc[t] = "Stream.Body"
    /\ streams' = streams \cup {newStream(cam)}
    /\ Return(t, Ret("Stream", <<>>, newStream(cam), NilErr, <<>>))
    /\ UNCHANGED <<cam, exited>> /\ Const

\* return f.newStream(), nil, then the deferred Unlock
StreamBody(t) ==
    /\ Alive
    /\ pc[t] = "Stream.Body"
    /\ streams' = streams \cup {newStream(cam)}
    /\ Return(t, Ret("Stream", <<>>, newStream(cam), NilErr, <<>>))
    /\ Unlock
    /\ UNCHANGED exited /\ Const

\* (s *s) Next begins: its argument reads the clock
CallNext(t, h) ==
    /\ Call(t, "Next.Image")
    /\ h \in streams
    /\ fr' = [fr EXCEPT ![t] = [@ EXCEPT !.ts1 = 0, !.trace = <<EvNow(0)>>]]
    /\ UNCHANGED <<cam, streams, exited>> /\ Const

\* a plausible slip: Next renders under the adapter lock
NextImageLocked(t) ==
    /\ Alive
    /\ pc[t] = "Next.Image"
    /\ cam.mu = 0
    /\ LET label == TxtImage \o Format(fr[t].ts1)
       IN \/ /\ build = 1
             /\ Return(t, Ret("Next", <<>>, NilVal, ErrEncoding, <<>>))
          \/ Return(t, Ret("Next", <<>>, ImageOf(cam.clockDrawer, label), NilErr,
                           fr[t].trace))
    /\ UNCHANGED <<cam, streams, exited>> /\ Const

\* s.clockDrawer.Image("image time: " + ...) and the return; the handle's
\* clockDrawer is the adapter's
NextImage(t) ==
    /\ Alive
    /\ pc[t] = "Next.Image"
    /\ LET label == TxtImage \o Format(fr[t].ts1)
       IN \/ /\ build = 1
             /\ Return(t, Ret("Next", <<>>, NilVal, ErrEncoding, <<>>))
          \/ Return(t, Ret("Next", <<>>, ImageOf(cam.clockDrawer, label), NilErr,
                           fr[t].trace))
    /\ UNCHANGED <<cam, streams, exited>> /\ Const

\* (s *s) Close
Close(t, h) ==
    /\ Alive
    /\ pc[t] = "idle"
    /\ h \in streams
    /\ ret' = [ret EXCEPT ![t] = Ret("Close", <<>>, NilVal, NilErr, <<>>)]
    /\ UNCHANGED <<cam, streams, exited, pc, fr>> /\ Const

(***************************************************************************)
(* DoCommand: main.go:196-205, 393-402.                                    *)
(***************************************************************************)
CallDoCommand(t, extra) ==
    /\ Call(t, "DoCommand")
    /\ fr' = [fr EXCEPT ![t] = [@ EXCEPT !.extra = extra]]
    /\ UNCHANGED <<cam, streams, exited>> /\ Const

DoCommandLock(t) ==
    /\ Alive
    /\ pc[t] = "DoCommand"
    /\ Lock(t)
    /\ pc' = [pc EXCEPT ![t] = "DoCommand.Body"]
    /\ UNCHANGED <<streams, exited, fr, ret>> /\ Const

\* a plausible slip: the value under "boom" is tested, not the key's presence
HasBoomValue(extra) == "boom" \in DOMAIN extra /\ extra["boom"] # "nil"

\* _, boom := extra["boom"]
HasBoom(extra) == "boom" \in DOMAIN extra

\* os.Exit(1) ends the process where it stands: no deferred call runs and
\* no caller moves again; otherwise return nil, nil and the deferred Unlock
DoCommandBody(t) ==
    /\ Alive
    /\ pc[t] = "DoCommand.Body"
    /\ IF HasBoom(fr[t].extra)
       THEN /\ exited' = Exited(1)
            /\ UNCHANGED <<cam, pc, fr, ret>>
       ELSE /\ Unlock
            /\ Return(t, Ret("DoCommand", fr[t].extra, NilVal, NilErr, <<>>))
            /\ UNCHANGED exited
    /\ UNCHANGED streams /\ Const

(***************************************************************************)
(* The configuration check.                                                *)
(***************************************************************************)
\* the host calls conf.Validate
ValidateStep ==
    /\ conf \in Configs
    /\ ~vres.run
    /\ vres' = [run |-> TRUE, res |-> Validate(conf)]
    /\ UNCHANGED <<build, colorOptions, imageTypeOptions, conf, cam, streams,
                   exited, pc, fr, ret>>

(***************************************************************************)
(* Specifications.                                                         *)
(***************************************************************************)
\* a process whose adapter was built from a configuration that passed
\* Validate, and that every caller is free to use
Init ==
    /\ build \in {1, 2}
    /\ PackageInit
    /\ conf = NoConf
    /\ vres = NotRun
    /\ \E c \in ValidConfigs : cam = newCam(build, c)
    /\ streams = {}
    /\ exited = NotExited
    /\ pc = [t \in Callers |-> "idle"]
    /\ fr = [t \in Callers |-> NoFrame]
    /\ ret = [t \in Callers |-> NoRet]

Step(t) ==
    \/ CallImages(t) \/ ImagesLock(t) \/ ImagesRender1(t) \/ ImagesRender2(t)
    \/ CallNextPointCloud(t) \/ NextPointCloudLock(t) \/ NextPointCloudBody(t)
    \/ NextPointCloudStub(t)
    \/ Projector(t)
    \/ CallStream(t) \/ StreamLock(t) \/ StreamBody(t)
    \/ \E h \in streams : CallNext(t, h) \/ Close(t, h)
    \/ NextImage(t)
    \/ \E extra \in Extras : CallDoCommand(t, extra)
    \/ DoCommandLock(t) \/ DoCommandBody(t)

Next == \E t \in Callers : Step(t)

Spec == Init /\ [][Next]_vars

\* any configuration the host may hand to Validate, before an adapter exists
InitValidate ==
    /\ build \in {1, 2}
    /\ PackageInit
    /\ conf \in Configs
    /\ vres = NotRun
    /\ cam = NoCam
    /\ streams = {}
    /\ exited = NotExited
    /\ pc = [t \in Callers |-> "idle"]
    /\ fr = [t \in Callers |-> NoFrame]
    /\ ret = [t \in Callers |-> NoRet]

NextValidate == ValidateStep

SpecValidate == InitValidate /\ [][NextValidate]_vars

\* the scheduling of the callers: a caller inside an operation keeps
\* running, and sync.Mutex hands the lock to a caller that keeps waiting
Acquire(t) ==
    ImagesLock(t) \/ NextPointCloudLock(t) \/ StreamLock(t) \/ DoCommandLock(t)

Continue(t) ==
    \/ ImagesRender1(t) \/ ImagesRender2(t)
    \/ NextPointCloudBody(t) \/ NextPointCloudStub(t)
    \/ StreamBody(t) \/ NextImage(t) \/ DoCommandBody(t)

LiveSpec ==
    /\ Init
    /\ [][Next]_vars
    /\ \A t \in Callers : WF_vars(Continue(t)) /\ SF_vars(Acquire(t))

(***************************************************************************)
(* Vocabulary of the properties.                                           *)
(***************************************************************************)
HasPrefix(s, p) == Len(s) >= Len(p) /\ SubSeq(s, 1, Len(p)) = p
HasSuffix(s, x) == Len(s) >= Len(x) /\ SubSeq(s, Len(s) - Len(x) + 1, Len(s)) = x

ValidColorNames == {white, red, green, blue}
ValidImageTypeNames == {jpeg, png}

\* the one enumeration of S in strictly ascending order
Ascending(S) ==
    CHOOSE s \in [1..Cardinality(S) -> S] :
        \A i, j \in 1..Cardinality(S) : i < j => LessStr(s[i], s[j])

\* the places between a lock acquisition and the return that releases it
LockedBodyPcs ==
    {"Images.Render1", "Images.Render2", "NextPointCloud.Body", "Stream.Body",
     "DoCommand.Body"}

\* the places where a caller waits for the lock
Waiting(t) ==
    \/ pc[t] \in {"Images", "Stream", "DoCommand"}
    \/ build = 1 /\ pc[t] = "NextPointCloud"

\* caller t is executing the body of Images, NextPointCloud, Stream or
\* DoCommand (build 2's NextPointCloud has a body and no lock)
InBody(t) ==
    \/ pc[t] \in LockedBodyPcs
    \/ build = 2 /\ pc[t] = "NextPointCloud"

(***************************************************************************)
(* Config.Validate                                                         *)
(***************************************************************************)
\* C1: Validate returns no error and no warnings for every configuration
\* whose color is white, red, green or blue and whose image_type is jpeg or
\* png, whatever big is.
C1_ValidConfigAccepted ==
    (vres.run /\ conf.Color \in ValidColorNames
              /\ conf.ImageType \in ValidImageTypeNames)
        => vres.res.err.nil /\ vres.res.warnings.nil

C1_Witness ==
    /\ vres.run
    /\ conf.Big
    /\ conf.Color = white
    /\ conf.ImageType = png
    /\ vres.res.err.nil

C2_Rejected ==
    vres.run =>
        LET e == vres.res.err
        IN /\ conf.Color \notin ValidColorNames =>
                /\ ~e.nil
                /\ HasPrefix(e.msg, TxtConfigColor \o conf.Color \o TxtValidColors)
                /\ HasSuffix(e.msg, TxtValidColors
                                      \o Join(Ascending(ValidColorNames), TxtCommaSpace))
           /\ (conf.Color \in ValidColorNames
                 /\ conf.ImageType \notin ValidImageTypeNames) =>
                /\ ~e.nil
                /\ HasPrefix(e.msg, TxtConfigImageType \o conf.ImageType
                                      \o TxtValidImageTypes)
                /\ HasSuffix(e.msg, TxtValidImageTypes
                                      \o Join(Ascending(ValidImageTypeNames),
                                              TxtCommaSpace))

\* C2: for a color outside the four (the empty string included) or an
\* image_type outside the two, Validate fails; its error names the offending
\* value and ends with the valid options of that field in ascending order;
\* and the call changes nothing but its own result.
C2_InvalidConfigRejected ==
    /\ []C2_Rejected
    /\ [][vres'.run /\ ~vres.run =>
            UNCHANGED <<build, colorOptions, imageTypeOptions, conf, cam,
                        streams, exited, pc, fr, ret>>]_vars

C2_Witness ==
    /\ vres.run
    /\ conf.Color = EmptyStr
    /\ ~vres.res.err.nil

(***************************************************************************)
(* The adapter's operations                                                *)
(***************************************************************************)
\* C3: every NextPointCloud returns, without error, the large payload when
\* the configuration's big flag is set and the small payload when it is not.
C3_PointCloudFollowsBig ==
    \A t \in Callers :
        ret[t].op = "NextPointCloud" =>
            /\ ret[t].err.nil
            /\ ret[t].val = IF cam.clockDrawer.big THEN bigPCD ELSE smallPCD

\* the same, of build 1 alone
PointCloudFollowsBigBuild1 == build = 1 => C3_PointCloudFollowsBig

\* C4: a successful Images returns exactly two named images whose
\* SourceNames are distinct and end in the extension of the encoding.
C4_TwoDistinctNames ==
    \A t \in Callers :
        (ret[t].op = "Images" /\ ret[t].err.nil) =>
            LET imgs == ret[t].val.images
            IN /\ Len(imgs) = 2
               /\ imgs[1].SourceName # imgs[2].SourceName
               /\ \A i \in 1..2 : HasSuffix(imgs[i].SourceName, Ext(cam.clockDrawer))

\* what does hold: two names, equal to each other, with the extension
TwoEqualNames ==
    \A t \in Callers :
        (ret[t].op = "Images" /\ ret[t].err.nil) =>
            LET imgs == ret[t].val.images
            IN /\ Len(imgs) = 2
               /\ imgs[1].SourceName = imgs[2].SourceName
               /\ \A i \in 1..2 : HasSuffix(imgs[i].SourceName, Ext(cam.clockDrawer))

\* C5: in a successful Images the events are, in order, a clock read, the
\* render of image 1 labelled with it, a second clock read, the render of
\* image 2 labelled with that one, and then the clock read that CapturedAt
\* reports.
C5_ImagesEventOrder ==
    \A t \in Callers :
        (ret[t].op = "Images" /\ ret[t].err.nil) =>
            LET tr == ret[t].trace
            IN /\ Len(tr) = 5
               /\ tr[1].ev = "now"
               /\ tr[2].ev = "Image" /\ tr[2].label = TxtImages1 \o Format(tr[1].ts)
               /\ tr[3].ev = "now"
               /\ tr[4].ev = "Image" /\ tr[4].label = TxtImages2 \o Format(tr[3].ts)
               /\ tr[5].ev = "now" /\ ret[t].val.meta.CapturedAt = tr[5].ts

\* what does hold: four events, both labels carry the first clock read, and
\* CapturedAt is the second clock read, made before the second render
ImagesEventOrderOfTheCode ==
    \A t \in Callers :
        (ret[t].op = "Images" /\ ret[t].err.nil) =>
            LET tr == ret[t].trace
            IN /\ Len(tr) = 4
               /\ tr[1].ev = "now"
               /\ tr[2].ev = "Image" /\ tr[2].label = TxtImages1 \o Format(tr[1].ts)
               /\ tr[3].ev = "now"
               /\ tr[4].ev = "Image" /\ tr[4].label = TxtImages2 \o Format(tr[1].ts)
               /\ ret[t].val.meta.CapturedAt = tr[3].ts

\* C6: no two callers are at once inside the bodies of Images,
\* NextPointCloud, Stream and DoCommand.
C6_BodiesExclusive ==
    \A t, u \in Callers : (t # u /\ InBody(t)) => ~InBody(u)

\* the same, of build 1 alone
BodiesExclusiveBuild1 == build = 1 => C6_BodiesExclusive

\* C7: a DoCommand whose map has the key "boom", under any value, ends the
\* process with a nonzero code and never returns, and no caller moves again;
\* a DoCommand whose map lacks it returns nil, nil and the process runs on.
C7_BoomExits ==
    /\ \A t \in Callers :
          /\ ret[t].op = "DoCommand" =>
                /\ "boom" \notin DOMAIN ret[t].in
                /\ ret[t].val.nil
                /\ ret[t].err.nil
          /\ (exited.running /\ pc[t] = "DoCommand.Body") =>
                /\ ENABLED DoCommandBody(t)
                /\ IF "boom" \in DOMAIN fr[t].extra
                   THEN ~ENABLED (DoCommandBody(t) /\ exited' # Exited(1))
                   ELSE ~ENABLED (DoCommandBody(t)
                                    /\ ~(exited'.running /\ ret'[t].op = "DoCommand"))
    /\ ~exited.running =>
          /\ exited.code # 0
          /\ \E t \in Callers :
                pc[t] = "DoCommand.Body" /\ "boom" \in DOMAIN fr[t].extra
          /\ ~ENABLED Next

C7_Witness ==
    /\ ~exited.running
    /\ \E t, u \in Callers :
          /\ t # u
          /\ pc[t] = "DoCommand.Body"
          /\ fr[t].extra = [boom |-> "nil"]
          /\ pc[u] = "Next.Image"

\* C8: Projector returns no projector and the error "Projector
\* unimplemented" on every call, and an idle caller can always run it to
\* completion, whoever holds the adapter lock.
C8_ProjectorUnimplemented ==
    \A t \in Callers :
        /\ ret[t].op = "Projector" =>
              /\ ret[t].val.nil
              /\ ~ret[t].err.nil
              /\ ret[t].err.msg = "Projector unimplemented"
        /\ (exited.running /\ pc[t] = "idle") => ENABLED Projector(t)

C8_Witness ==
    \E t, u \in Callers :
        /\ t # u
        /\ ret[t].op = "Projector"
        /\ ~ret[t].err.nil
        /\ cam.mu = u
        /\ pc[u] = "Images.Render2"
        /\ cam.big /\ cam.clockDrawer.imageType = png

\* C9: Next on a stream handle can begin and can finish whoever holds the
\* adapter lock and whatever the other callers are doing, a second Next
\* included; no step of Next touches the lock or the handles; a successful
\* Next returns one image labelled with the clock it read; and Close
\* changes nothing.
C9_NextTakesNoLock ==
    \A t \in Callers :
        /\ (exited.running /\ pc[t] = "idle") =>
              \A h \in streams :
                  /\ ENABLED CallNext(t, h)
                  /\ ~ENABLED (CallNext(t, h)
                                 /\ ~(cam' = cam /\ streams' = streams
                                        /\ fr'[t].trace = <<EvNow(fr'[t].ts1)>>))
                  /\ ENABLED Close(t, h)
                  /\ ~ENABLED (Close(t, h)
                                 /\ ~UNCHANGED <<cam, streams, exited, pc, fr>>)
        /\ (exited.running /\ pc[t] = "Next.Image") =>
              /\ ENABLED NextImage(t)
              /\ ~ENABLED (NextImage(t) /\ ~(cam' = cam /\ streams' = streams))
        /\ (ret[t].op = "Next" /\ ret[t].err.nil) =>
              /\ Len(ret[t].trace) = 1
              /\ ret[t].trace[1].ev = "now"
              /\ ret[t].val = ImageOf(cam.clockDrawer,
                                      TxtImage \o Format(ret[t].trace[1].ts))

\* a Next in progress while another caller holds the lock inside Images
C9_Witness ==
    \E t, u \in Callers :
        /\ t # u
        /\ pc[t] = "Next.Image"
        /\ cam.mu = u
        /\ pc[u] \in LockedBodyPcs

\* two Next calls in progress at once
TwoNextOverlap ==
    \E t, u \in Callers : t # u /\ pc[t] = "Next.Image" /\ pc[u] = "Next.Image"

C10_State ==
    exited.running =>
        /\ \A t \in Callers : cam.mu = t <=> pc[t] \in LockedBodyPcs
        /\ (\A t \in Callers : pc[t] \notin LockedBodyPcs) => cam.mu = 0

C10_Step ==
    \A t \in Callers :
        (pc[t] \in LockedBodyPcs /\ pc'[t] = "idle") => (cam.mu = t /\ cam'.mu = 0)

\* C10: while the process runs, the lock is held exactly by the caller that
\* is inside a locked operation and is free when there is none; every return
\* of a locked operation releases it; and every caller waiting for the lock
\* returns, unless a DoCommand with "boom" ends the process first.
C10_LockReleased ==
    /\ []C10_State
    /\ [][C10_Step]_vars
    /\ \A t \in Callers : Waiting(t) ~> (pc[t] = "idle" \/ ~exited.running)

\* the lock is free again after an Images that returned a render error
C10_Witness ==
    /\ exited.running
    /\ cam.mu = 0
    /\ \A t \in Callers : pc[t] = "idle"
    /\ \E t, u \in Callers :
          /\ t # u
          /\ ret[t].op = "Images" /\ ~ret[t].err.nil
          /\ ret[u].op = "Stream"
====
